---- MODULE Spec2Model ----
(***************************************************************************)
(* The plotting scripts of OnlineAlgorithms (l1/plot.py, l2/gen_plots.py,  *)
(* l3/plot.py, l4/plot.py, l5/plot.py) as one state machine.  A run picks  *)
(* one script and the rows of its results file; every action is one        *)
(* statement block of that script (a derivation, a group-by, one iteration *)
(* of a plotting loop, one chart and its savefig).                         *)
(*                                                                         *)
(* Floating point columns are carried as exact non-negative fractions      *)
(* <<num, den>> in lowest terms; <<1, 0>> is +inf and <<0, 0>> is NaN, the *)
(* two values pandas produces for x/0 and 0/0.  IEEE rounding is not       *)
(* modelled.  error is the exception that ended the run ("none" while it   *)
(* runs) and raised_in the call that raised it.                            *)
(***************************************************************************)
EXTENDS Integers, Sequences, FiniteSets, TLC

VARIABLES script, csv, pc, df, hue_order, palette, df_grouped, i, saved,
          pivot_cost, pivot_max, error, raised_in

vars == <<script, csv, pc, df, hue_order, palette, df_grouped, i, saved,
          pivot_cost, pivot_max, error, raised_in>>

(* The largest number of data rows of a results file. *)
MaxRows == 2

(***************************************************************************)
(* Sequence helpers.                                                       *)
(***************************************************************************)
Range(s) == {s[j] : j \in 1..Len(s)}

(* The frames of at most n rows, the frame of a header-only file included. *)
SeqsUpTo(S, n) == UNION {[1..k -> S] : k \in 0..n}

Column(frame, field) == [j \in 1..Len(frame) |-> frame[j][field]]

(* Series.unique(): the distinct values in order of first appearance. *)
RECURSIVE Unique(_)
Unique(s) ==
    IF s = <<>> THEN <<>>
    ELSE LET init == Unique(SubSeq(s, 1, Len(s) - 1))
             last == s[Len(s)]
         IN IF last \in Range(init) THEN init ELSE Append(init, last)

IndexOf(s, x) == CHOOSE j \in 1..Len(s) : s[j] = x

(* str < str of Python (code point order), for the names the runs use. *)
Collation == <<"A", "B", "BestFit", "FIFO", "FirstFit", "Harmonic", "LRU",
               "MoveToFront", "NextFit", "RandomFit", "Transpose", "Uniform",
               "Uniform_zoomed", "WorstFit", "hypercube", "torus">>
Rank(name) == IndexOf(Collation, name)

(* a < b for two tuples of integers of the same length. *)
LexLess(a, b) ==
    \E j \in 1..Len(a) : a[j] < b[j] /\ \A h \in 1..(j - 1) : a[h] = b[h]

RECURSIVE Join(_)
Join(parts) == IF parts = <<>> THEN "" ELSE Head(parts) \o Join(Tail(parts))

(***************************************************************************)
(* Floats.                                                                 *)
(***************************************************************************)
RECURSIVE GCD(_, _)
GCD(a, b) == IF b = 0 THEN a ELSE GCD(b, a % b)

Frac(n, d) == LET g == GCD(n, d) IN <<n \div g, d \div g>>

Inf == <<1, 0>>
NaN == <<0, 0>>
FromInt(n) == <<n, 1>>
IsNaN(a) == a = NaN
IsZero(a) == a[1] = 0 /\ a[2] # 0

(* a / b on float64 columns: x/0 is inf, 0/0 is NaN, no exception. *)
FDiv(a, b) ==
    IF IsNaN(a) \/ IsNaN(b) THEN NaN
    ELSE IF IsZero(b) THEN (IF IsZero(a) THEN NaN ELSE Inf)
    ELSE IF b = Inf THEN (IF a = Inf THEN NaN ELSE FromInt(0))
    ELSE IF a = Inf THEN Inf
    ELSE Frac(a[1] * b[2], a[2] * b[1])

FAdd(a, b) ==
    IF IsNaN(a) \/ IsNaN(b) THEN NaN
    ELSE IF a = Inf \/ b = Inf THEN Inf
    ELSE Frac(a[1] * b[2] + b[1] * a[2], a[2] * b[2])

(* a < b for two floats that are not NaN. *)
FLess(a, b) == a[1] * b[2] < b[1] * a[2]

RECURSIVE FSum(_)
FSum(values) == IF values = <<>> THEN FromInt(0)
                ELSE FAdd(Head(values), FSum(Tail(values)))

(* agg "sum" where "mean" is meant. *)
MeanAsSum(values) == FSum(SelectSeq(values, LAMBDA v : ~IsNaN(v)))

(* Series.mean(): NaN is skipped; the mean of nothing is NaN. *)
Mean(values) ==
    LET kept == SelectSeq(values, LAMBDA v : ~IsNaN(v))
    IN FDiv(FSum(kept), FromInt(Len(kept)))

(* The upper middle value where the two middle values are to be averaged. *)
MedianUpperMiddle(values) ==
    LET kept == SelectSeq(values, LAMBDA v : ~IsNaN(v))
        sorted == SortSeq(kept, FLess)
    IN IF sorted = <<>> THEN NaN ELSE sorted[(Len(sorted) \div 2) + 1]

(* Series.median(): NaN is skipped; the median of nothing is NaN. *)
Median(values) ==
    LET kept == SelectSeq(values, LAMBDA v : ~IsNaN(v))
        sorted == SortSeq(kept, FLess)
        n == Len(sorted)
    IN IF n = 0 THEN NaN
       ELSE IF n % 2 = 1 THEN sorted[(n + 1) \div 2]
       ELSE FDiv(FAdd(sorted[n \div 2], sorted[n \div 2 + 1]), FromInt(2))

(* np.ceil on a float column. *)
Ceil(a) == IF a[2] = 0 THEN a ELSE FromInt((a[1] + a[2] - 1) \div a[2])

(***************************************************************************)
(* seaborn's hue mapping.                                                  *)
(***************************************************************************)
PaletteSize(name) == CASE name = "Set2" -> 8 [] OTHER -> 10

(* sns.color_palette(name, n_colors): the first n colours, cycling. *)
color_palette(name, n_colors) ==
    [j \in 1..n_colors |-> <<name, (j - 1) % PaletteSize(name)>>]

(* HueMapping.categorical_mapping with a list palette: dict(zip(levels, colors)). *)
HueLookup(levels, colors) ==
    [c \in Range(levels) |-> colors[IndexOf(levels, c)]]

(* The <<value, colour>> pairs of a chart that draws the values drawn in *)
(* the colours of lookup.                                                *)
Colours(lookup, drawn) ==
    {<<cat, lookup[cat]>> : cat \in drawn \cap DOMAIN lookup}

(* One chart as handed to savefig: the file it is written to, the values   *)
(* that bind it, the frame it is built from, the hue column, the colour   *)
(* of each hue level, the hue values it draws (the values of its data     *)
(* that are among its levels), the <<value, colour>> pairs that appear on *)
(* it and the text annotations put on it.  A colour is a palette and an   *)
(* index into it; the saturation of bars and boxes is not carried.        *)
Chart(file, key, data, hue, levels, lookup) ==
    [file |-> file, key |-> key, data |-> data, hue |-> hue, lookup |-> lookup,
     drawn |-> Range(Column(data, hue)) \cap Range(levels),
     colours |-> Colours(lookup, Range(Column(data, hue)) \cap Range(levels)),
     annot |-> {}]

(* The chart with the hue values it draws narrowed to drawn. *)
WithDrawn(chart, drawn) ==
    [chart EXCEPT !.drawn = drawn, !.colours = Colours(chart.lookup, drawn)]

(* An uncaught ValueError raised in call: the script stops there. *)
Raise(call) == error' = "ValueError" /\ raised_in' = call /\ pc' = "failed"

(***************************************************************************)
(* l1/plot.py                                                              *)
(***************************************************************************)
ZoomFrom == 5000

L1Rows == [n : {0, ZoomFrom}, list_type : {"MoveToFront", "Transpose"},
           distribution : {"Uniform", "Uniform_zoomed"}, total_cost : {0, 7500}]

WithField(row, field, value) ==
    [f \in DOMAIN row \cup {field} |-> IF f = field THEN value ELSE row[f]]

L1AvgCost(row) == FDiv(FromInt(row.total_cost), FromInt(row.n))

(* sns.lineplot(..., hue='list_type', hue_order=hue_order, palette=palette) *)
L1Lineplot(file, key, subset) ==
    Chart(file, key, subset, "list_type", hue_order,
          IF subset = <<>> THEN <<>> ELSE HueLookup(hue_order, palette))

L1Derive ==
    /\ script = "l1" /\ pc = "start"
    /\ df' = [j \in 1..Len(csv) |-> WithField(csv[j], "avg_cost", L1AvgCost(csv[j]))]
    /\ pc' = "palette"
    /\ UNCHANGED <<script, csv, hue_order, palette, df_grouped, i, saved,
                   pivot_cost, pivot_max, error, raised_in>>

L1Palette ==
    /\ script = "l1" /\ pc = "palette"
    /\ hue_order' = Unique(Column(df, "list_type"))
    /\ palette' = color_palette("current", Len(hue_order'))
    /\ pc' = "distributions" /\ i' = 1
    /\ UNCHANGED <<script, csv, df, df_grouped, saved, pivot_cost, pivot_max, error, raised_in>>

L1Distributions == Unique(Column(df, "distribution"))

L1PlotDistribution ==
    /\ script = "l1" /\ pc = "distributions" /\ i <= Len(L1Distributions)
    /\ LET distribution == L1Distributions[i]
           subset == SelectSeq(df, LAMBDA r : r.distribution = distribution)
       IN saved' = Append(saved,
              L1Lineplot("distribution_" \o distribution \o ".png",
                         <<"distribution", distribution>>, subset))
    /\ i' = i + 1
    /\ UNCHANGED <<script, csv, pc, df, hue_order, palette, df_grouped,
                   pivot_cost, pivot_max, error, raised_in>>

L1PlotZoomed ==
    /\ script = "l1" /\ pc = "distributions" /\ i > Len(L1Distributions)
    /\ LET subset == SelectSeq(SelectSeq(df, LAMBDA r : r.distribution = "Uniform"),
                               LAMBDA r : r.n >= ZoomFrom)
       IN saved' = Append(saved,
              L1Lineplot("distribution_Uniform_zoomed.png", <<"zoomed">>, subset))
    /\ pc' = "done"
    /\ UNCHANGED <<script, csv, df, hue_order, palette, df_grouped, i,
                   pivot_cost, pivot_max, error, raised_in>>

(***************************************************************************)
(* l2/gen_plots.py                                                         *)
(***************************************************************************)
N100 == 100
N2 == 20

L2Rows == [distribution : {"A", "B"}, n : {N2, N100},
           cache_strategy : {"FIFO", "LRU"}, k : {1, 2},
           avg_cost : {FromInt(2), FromInt(4)}]

L2Key(row) == <<Rank(row.distribution), row.n, Rank(row.cache_strategy), row.k>>

(* groupby(..., sort=False): the keys in order of first appearance. *)
GroupKeysUnsorted(keys) == Unique(keys)

(* DataFrame.groupby(keys).groups with the default sort=True: the distinct *)
(* keys, ascending.                                                        *)
GroupKeys(keys) == SortSeq(Unique(keys), LexLess)

(* df.groupby(["distribution", "n", "cache_strategy", "k"], as_index=False) *)
(*   .agg({"avg_cost": "mean"})                                             *)
L2GroupbyMean(frame) ==
    LET keys == GroupKeys([j \in 1..Len(frame) |-> L2Key(frame[j])])
        group(key) == SelectSeq(frame, LAMBDA r : L2Key(r) = key)
    IN [g \in 1..Len(keys) |->
          [group(keys[g])[1] EXCEPT
             !.avg_cost = Mean(Column(group(keys[g]), "avg_cost"))]]

(* groupby(["n", "cache_strategy"])["k"].transform(how) for one row. *)
L2TransformK(frame, row, how) ==
    LET ks == {r.k : r \in {q \in Range(frame) :
                   q.n = row.n /\ q.cache_strategy = row.cache_strategy}}
    IN IF how = "min" THEN CHOOSE k \in ks : \A o \in ks : k <= o
       ELSE CHOOSE k \in ks : \A o \in ks : k >= o

(* The extreme k of the whole frame, the groupby left out. *)
L2ExtremeOfFrame(df_dist, how) ==
    LET ks == Range(Column(df_dist, "k"))
        k == IF how = "min" THEN CHOOSE x \in ks : \A o \in ks : x <= o
             ELSE CHOOSE x \in ks : \A o \in ks : x >= o
    IN SelectSeq(df_dist, LAMBDA r : r.k = k)

L2Extreme(df_dist, how) ==
    SelectSeq(df_dist, LAMBDA r : L2TransformK(df_dist, r, how) = r.k)

(* seaborn's categorical_order: the distinct values in order of first *)
(* appearance, sorted when the column is numeric.                     *)
categorical_order(values, numeric) ==
    IF numeric THEN SortSeq(Unique(values), LAMBDA a, b : a < b)
    ELSE Unique(values)

(* sns.lineplot(..., hue=hue, palette=name) and FacetGrid(hue=hue,          *)
(* palette=name): the levels are taken from the hue values of the chart's   *)
(* own data.                                                                *)
NamedPaletteChart(file, key, data, hue, name) ==
    LET levels == categorical_order(Column(data, hue), hue = "D")
    IN Chart(file, key, data, hue, levels,
             IF data = <<>> THEN <<>>
             ELSE HueLookup(levels, color_palette(name, Len(levels))))

L2Group ==
    /\ script = "l2" /\ pc = "start"
    /\ df' = csv
    /\ df_grouped' = L2GroupbyMean(csv)
    /\ pc' = "distributions" /\ i' = 1
    /\ UNCHANGED <<script, csv, hue_order, palette, saved, pivot_cost,
                   pivot_max, error, raised_in>>

L2Distributions == Unique(Column(df_grouped, "distribution"))

L2PlotDistribution ==
    /\ script = "l2" /\ pc = "distributions" /\ i <= Len(L2Distributions)
    /\ LET dist == L2Distributions[i]
           df_dist == SelectSeq(df_grouped, LAMBDA r : r.distribution = dist)
           df_dist_min == L2Extreme(df_dist, "min")
           df_dist_max == L2Extreme(df_dist, "max")
       IN saved' = saved \o
            <<NamedPaletteChart("avg_cost_all_k_" \o dist \o ".png",
                  <<"all_k", dist>>, df_dist, "cache_strategy", "tab10"),
              NamedPaletteChart("avg_cost_lowest_k_" \o dist \o ".png",
                  <<"lowest_k", dist>>, df_dist_min, "cache_strategy", "tab10"),
              NamedPaletteChart("avg_cost_highest_k_" \o dist \o ".png",
                  <<"highest_k", dist>>, df_dist_max, "cache_strategy", "tab10")>>
    /\ i' = i + 1
    /\ UNCHANGED <<script, csv, pc, df, hue_order, palette, df_grouped,
                   pivot_cost, pivot_max, error, raised_in>>

(* FacetGrid(df_grouped, col="cache_strategy", col_wrap=3, ...): one axes *)
(* per level of the col column.  With no level (an empty frame) the grid  *)
(* has no row and building the subplots raises ValueError.               *)
L2FacetGrid ==
    /\ script = "l2" /\ pc = "distributions" /\ i > Len(L2Distributions)
    /\ IF Unique(Column(df_grouped, "cache_strategy")) = <<>>
       THEN /\ Raise("sns.FacetGrid")
            /\ UNCHANGED saved
       ELSE /\ saved' = Append(saved,
                  NamedPaletteChart("avg_cost_by_strategy.png", <<"by_strategy">>,
                                    df_grouped, "distribution", "Set2"))
            /\ pc' = "n100"
            /\ UNCHANGED <<error, raised_in>>
    /\ UNCHANGED <<script, csv, df, hue_order, palette, df_grouped, i,
                   pivot_cost, pivot_max>>

L2PlotN100 ==
    /\ script = "l2" /\ pc = "n100"
    /\ LET df_n100 == SelectSeq(df_grouped, LAMBDA r : r.n = N100)
       IN saved' = Append(saved,
            NamedPaletteChart("avg_cost_vs_k_n100.png", <<"vs_k", N100>>,
                              df_n100, "cache_strategy", "tab10"))
    /\ pc' = "n2"
    /\ UNCHANGED <<script, csv, df, hue_order, palette, df_grouped, i,
                   pivot_cost, pivot_max, error, raised_in>>

L2PlotN2 ==
    /\ script = "l2" /\ pc = "n2"
    /\ LET df_n2 == SelectSeq(df_grouped, LAMBDA r : r.n = N2)
       IN saved' = Append(saved,
            NamedPaletteChart("avg_cost_vs_k_n2.png", <<"vs_k", N2>>,
                              df_n2, "cache_strategy", "tab10"))
    /\ pc' = "done"
    /\ UNCHANGED <<script, csv, df, hue_order, palette, df_grouped, i,
                   pivot_cost, pivot_max, error, raised_in>>

(***************************************************************************)
(* l3/plot.py                                                              *)
(***************************************************************************)
(* A field that read_csv takes for a missing value (an empty field, NaN, *)
(* NA, ...): the cell holds NaN.                                         *)
Missing == "NaN"

L3Rows == [distribution : {"A", "B", Missing},
           strategy : {"NextFit", "FirstFit", "Harmonic"},
           item_sum : {<<1, 2>>, <<3, 2>>}, bin_count : {2, 3}]

strategy_order == <<"NextFit", "RandomFit", "FirstFit", "BestFit", "WorstFit">>

strategy_palette ==
    HueLookup(strategy_order, color_palette("Set2", Len(strategy_order)))

L3Optimum(row) == Ceil(row.item_sum)

L3CompetitiveRatio(row) == FDiv(FromInt(row.bin_count), L3Optimum(row))

(* data.groupby(x_col)[y_col].median(): a Series indexed by the x values *)
(* that occur in data.                                                   *)
GroupbyMedian(data, x_col, y_col) ==
    [c \in Range(Column(data, x_col)) |->
        Median(Column(SelectSeq(data, LAMBDA r : r[x_col] = c), y_col))]

(* The tick labels of a categorical axis drawn with order=strategy_order *)
(* are the entries of the order, at positions 0, 1, ...                  *)
annotate_medians(data, x_col, y_col) ==
    LET medians == GroupbyMedian(data, x_col, y_col)
        categories == strategy_order
    IN {[pos |-> j - 1, cat |-> categories[j], val |-> medians[categories[j]]] :
           j \in {h \in 1..Len(categories) : categories[h] \in DOMAIN medians}}

(* HueMapping.categorical_mapping with a dict palette and no hue_order:  *)
(* the levels are the hue values of the data (order= binds the x axis,   *)
(* not the hue), and a level that is no key of the dict raises           *)
(* ValueError ("The palette dictionary is missing keys").                *)
PaletteMissingKeys(data) == Range(Column(data, "strategy")) \ DOMAIN strategy_palette

(* sns.boxplot(x='strategy', y=..., data=data, hue='strategy',           *)
(*             order=strategy_order, palette=strategy_palette), once the *)
(* palette has been accepted.  On an empty frame boxplot returns the     *)
(* bare axes.                                                            *)
L3Boxplot(file, key, data) ==
    Chart(file, key, data, "strategy", strategy_order, strategy_palette)

(* The rows that have a distribution. *)
L3Present(data) == SelectSeq(data, LAMBDA r : r.distribution # Missing)

(* sns.barplot(x='distribution', ..., hue='strategy', data=df,           *)
(*             hue_order=strategy_order, palette=strategy_palette): the  *)
(* levels are hue_order, every one a key of the dict, so nothing is      *)
(* raised; rows of another hue value are not drawn, nor are rows whose   *)
(* x is missing.                                                         *)
L3Barplot(file, key, data) ==
    WithDrawn(Chart(file, key, data, "strategy", strategy_order, strategy_palette),
              Range(Column(L3Present(data), "strategy")) \cap Range(strategy_order))

L3Derive ==
    /\ script = "l3" /\ pc = "start"
    /\ df' = [j \in 1..Len(csv) |->
                WithField(WithField(csv[j], "optimum", L3Optimum(csv[j])),
                          "competitive_ratio", L3CompetitiveRatio(csv[j]))]
    /\ pc' = "boxplots" /\ i' = 1
    /\ UNCHANGED <<script, csv, hue_order, palette, df_grouped, saved,
                   pivot_cost, pivot_max, error, raised_in>>

(* df.groupby('distribution'): the groups in ascending key order; rows *)
(* whose key is missing are in no group (dropna=True).                 *)
L3Groups ==
    GroupKeys([j \in 1..Len(L3Present(df)) |->
                  <<Rank(L3Present(df)[j].distribution)>>])

L3BoxplotDistribution ==
    /\ script = "l3" /\ pc = "boxplots" /\ i <= Len(L3Groups)
    /\ LET dist == Collation[L3Groups[i][1]]
           group == SelectSeq(df, LAMBDA r : r.distribution = dist)
           box == L3Boxplot(dist \o "_competitive_ratio_boxplot.png",
                            <<"box", dist>>, group)
       IN IF PaletteMissingKeys(group) # {}
          THEN /\ Raise("sns.boxplot")
               /\ UNCHANGED <<saved, i>>
          ELSE /\ saved' = Append(saved,
                     [box EXCEPT !.annot = annotate_medians(group, "strategy",
                                                            "competitive_ratio")])
               /\ i' = i + 1
               /\ UNCHANGED <<pc, error, raised_in>>
    /\ UNCHANGED <<script, csv, df, hue_order, palette, df_grouped,
                   pivot_cost, pivot_max>>

L3BarplotMean ==
    /\ script = "l3" /\ pc = "boxplots" /\ i > Len(L3Groups)
    /\ saved' = Append(saved,
          L3Barplot("mean_competitive_ratio_barplot.png", <<"bar">>, df))
    /\ pc' = "overall"
    /\ UNCHANGED <<script, csv, df, hue_order, palette, df_grouped, i,
                   pivot_cost, pivot_max, error, raised_in>>

L3OverallBoxplot ==
    /\ script = "l3" /\ pc = "overall"
    /\ LET box == L3Boxplot("overall_competitive_ratio_boxplot.png",
                            <<"box", "overall">>, df)
       IN IF PaletteMissingKeys(df) # {}
          THEN /\ Raise("sns.boxplot")
               /\ UNCHANGED saved
          ELSE /\ saved' = Append(saved,
                     [box EXCEPT !.annot = annotate_medians(df, "strategy",
                                                            "competitive_ratio")])
               /\ pc' = "facet"
               /\ UNCHANGED <<error, raised_in>>
    /\ UNCHANGED <<script, csv, df, hue_order, palette, df_grouped, i,
                   pivot_cost, pivot_max>>

(* The facets of FacetGrid(df, col='distribution'): the distributions in *)
(* order of first appearance, missing values left out.                   *)
L3Facets == Unique(Column(L3Present(df), "distribution"))

(* FacetGrid(df, col='distribution', col_wrap=2).map_dataframe(sns.boxplot, *)
(* ...): with no facet the grid has no row and building the subplots       *)
(* raises ValueError; otherwise one boxplot call per facet, each on the    *)
(* facet's rows.                                                           *)
L3FacetGrid ==
    /\ script = "l3" /\ pc = "facet"
    /\ IF L3Facets = <<>>
       THEN /\ Raise("sns.FacetGrid")
            /\ UNCHANGED saved
       ELSE IF \E d \in Range(L3Facets) :
                 PaletteMissingKeys(SelectSeq(df, LAMBDA r : r.distribution = d)) # {}
       THEN /\ Raise("sns.boxplot")
            /\ UNCHANGED saved
       ELSE /\ saved' = Append(saved,
                  WithDrawn(L3Boxplot("facet_bin_count_boxplots_2x2.png",
                                      <<"facet">>, df),
                            Range(Column(L3Present(df), "strategy"))
                              \cap Range(strategy_order)))
            /\ pc' = "done"
            /\ UNCHANGED <<error, raised_in>>
    /\ UNCHANGED <<script, csv, df, hue_order, palette, df_grouped, i,
                   pivot_cost, pivot_max>>

(***************************************************************************)
(* l4/plot.py.  Algorithm and Distribution names are sequences of          *)
(* characters, so that the file name built from them is computed           *)
(* character by character.  The sd_cost column of the summaries (a square  *)
(* root) is not carried.                                                   *)
(***************************************************************************)
L4Rows == [Algorithm : {<<"a">>, <<"a", " ", "b">>, <<"a", "_", "b">>},
           Distribution : {<<"c">>, <<"b", "_", "c">>},
           Graph : {"hypercube", "torus"}, D : {1},
           Cost : {FromInt(2), FromInt(4)}]

(* ord(c) *)
Code(c) == CASE c = " " -> 32 [] c = "_" -> 95 [] c = "a" -> 97
             [] c = "b" -> 98 [] c = "c" -> 99

(* A name as a tuple of width integers that compare as the names do: its *)
(* character codes, then zeros.                                           *)
Codes(name, width) ==
    [j \in 1..width |-> IF j <= Len(name) THEN Code(name[j]) ELSE 0]

L4Key(row) == Codes(row.Algorithm, 3) \o Codes(row.Distribution, 3)
              \o <<Rank(row.Graph), row.D>>

(* df.groupby(['Algorithm','Distribution','Graph','D'], as_index=False) *)
(*   .agg(mean_cost=('Cost','mean'), sd_cost=('Cost','std'))             *)
L4Summary(frame) ==
    LET keys == GroupKeys([j \in 1..Len(frame) |-> L4Key(frame[j])])
        group(key) == SelectSeq(frame, LAMBDA r : L4Key(r) = key)
    IN [g \in 1..Len(keys) |->
          [Algorithm |-> group(keys[g])[1].Algorithm,
           Distribution |-> group(keys[g])[1].Distribution,
           Graph |-> group(keys[g])[1].Graph,
           D |-> group(keys[g])[1].D,
           mean_cost |-> Mean(Column(group(keys[g]), "Cost"))]]

(* str.replace(' ', '_') on a sequence of pieces, none of the literal *)
(* pieces holding a space.                                            *)
ReplaceSpaces(pieces) ==
    [j \in 1..Len(pieces) |-> IF pieces[j] = " " THEN "_" ELSE pieces[j]]

(* f'cost_vs_D_{alg}_{dist}.png'.replace(' ','_') *)
L4SplitFileName(alg, dist) ==
    Join(ReplaceSpaces(<<"cost_vs_D_">> \o alg \o <<"_">> \o dist \o <<".png">>))

(* sns.catplot(data=df, ..., hue=hue, col=..., kind="bar") with no       *)
(* palette: the hue levels are the values of the whole frame in order of *)
(* first appearance, coloured with the first colours of the current      *)
(* palette, the same in every facet.                                     *)
(* The names of hue= as strings: an Algorithm is a sequence of characters. *)
L4HueNames(data, hue) ==
    [j \in 1..Len(data) |->
        [Hue |-> IF hue = "Algorithm" THEN Join(data[j][hue]) ELSE data[j][hue]]]

L4CatplotChart(file, key, data, hue) ==
    LET levels == Unique(Column(L4HueNames(data, hue), "Hue"))
        lookup == HueLookup(levels, color_palette("current", Len(levels)))
    IN [Chart(file, key, data, "Graph", <<>>, <<>>)
          EXCEPT !.hue = hue, !.lookup = lookup, !.drawn = Range(levels),
                 !.colours = Colours(lookup, Range(levels))]

(* ax.plot(...) once per Graph of the rows of one axes, the graphs taken *)
(* in the given order: each call takes the next colour of the axes'      *)
(* colour cycle, which is the current palette.                           *)
L4LineLookup(rows, order) ==
    LET present == SelectSeq(order, LAMBDA g : g \in Range(Column(rows, "Graph")))
    IN HueLookup(present, color_palette("current", Len(present)))

(* The Graph values of a frame, ascending: the groups of groupby('Graph'). *)
L4GraphsSorted(frame) ==
    SortSeq(Unique(Column(frame, "Graph")), LAMBDA a, b : Rank(a) < Rank(b))

(* The non-empty (Algorithm, Distribution) subsets of a summary. *)
L4Facets(summary) ==
    {SelectSeq(summary, LAMBDA r : r.Algorithm = q.Algorithm
                                   /\ r.Distribution = q.Distribution) :
        q \in Range(summary)}

(* FacetGrid(summary, row="Algorithm", col="Distribution", hue="Graph")  *)
(* .map_dataframe(plot_fn): plot_fn is called per facet and hue level,   *)
(* the hue levels in order of first appearance in summary; it ignores    *)
(* the colour the grid hands it and plots with the axes' colour cycle,   *)
(* so a Graph is coloured by its place among the graphs of its facet.    *)
L4CostVsDChart(file, key, summary) ==
    LET hue_names == Unique(Column(summary, "Graph"))
    IN [Chart(file, key, summary, "Graph", hue_names, <<>>)
          EXCEPT !.colours = UNION {Colours(L4LineLookup(facet, hue_names),
                                            Range(Column(facet, "Graph"))) :
                                       facet \in L4Facets(summary)}]

(* One figure of plot_cost_vs_D_split: one plt.plot per group of *)
(* sub.groupby('Graph'), the groups in ascending order.          *)
L4SplitChart(file, key, sub) ==
    Chart(file, key, sub, "Graph", L4GraphsSorted(sub),
          L4LineLookup(sub, L4GraphsSorted(sub)))

L4Main ==
    /\ script = "l4" /\ pc = "start"
    /\ df' = csv
    /\ pc' = "plot_distribution_comparison"
    /\ UNCHANGED <<script, csv, hue_order, palette, df_grouped, i, saved,
                   pivot_cost, pivot_max, error, raised_in>>

(* sns.catplot(data=df, ..., col=...) builds a FacetGrid with one column *)
(* of axes per level of the col column; with no level (an empty frame)   *)
(* building the subplots raises ValueError.                              *)
L4Catplot(at, file, key, hue, then) ==
    /\ script = "l4" /\ pc = at
    /\ IF df = <<>>
       THEN /\ Raise("sns.catplot")
            /\ UNCHANGED saved
       ELSE /\ saved' = Append(saved, L4CatplotChart(file, key, df, hue))
            /\ pc' = then
            /\ UNCHANGED <<error, raised_in>>
    /\ UNCHANGED <<script, csv, df, hue_order, palette, df_grouped, i,
                   pivot_cost, pivot_max>>

plot_distribution_comparison ==
    L4Catplot("plot_distribution_comparison", "compare_by_distribution.png",
              <<"compare", "Distribution">>, "Graph",
              "plot_algorithm_comparison")

plot_algorithm_comparison ==
    L4Catplot("plot_algorithm_comparison", "compare_by_algorithm.png",
              <<"compare", "Algorithm">>, "Graph", "plot_graph_comparison")

plot_graph_comparison ==
    L4Catplot("plot_graph_comparison", "compare_by_graph.png",
              <<"compare", "Graph">>, "Algorithm", "plot_cost_vs_D")

plot_cost_vs_D ==
    /\ script = "l4" /\ pc = "plot_cost_vs_D"
    /\ saved' = Append(saved, L4CostVsDChart("cost_vs_D.png", <<"cost_vs_D">>,
                                             L4Summary(df)))
    /\ pc' = "plot_cost_vs_D_split"
    /\ UNCHANGED <<script, csv, df, hue_order, palette, df_grouped, i,
                   pivot_cost, pivot_max, error, raised_in>>

(* The figures of the nested loop over summary['Algorithm'].unique() and *)
(* summary['Distribution'].unique(), in loop order, pairs with no rows   *)
(* skipped.                                                               *)
L4SplitCharts(summary) ==
    LET algs == Unique(Column(summary, "Algorithm"))
        dists == Unique(Column(summary, "Distribution"))
        sub(alg, dist) == SelectSeq(summary,
            LAMBDA r : r.Algorithm = alg /\ r.Distribution = dist)
        pairs == [h \in 1..(Len(algs) * Len(dists)) |->
                    <<algs[((h - 1) \div Len(dists)) + 1],
                      dists[((h - 1) % Len(dists)) + 1]>>]
        kept == SelectSeq(pairs, LAMBDA pr : sub(pr[1], pr[2]) # <<>>)
    IN [h \in 1..Len(kept) |->
          L4SplitChart(L4SplitFileName(kept[h][1], kept[h][2]),
                       <<"split", kept[h][1], kept[h][2]>>,
                       sub(kept[h][1], kept[h][2]))]

plot_cost_vs_D_split ==
    /\ script = "l4" /\ pc = "plot_cost_vs_D_split"
    /\ saved' = saved \o L4SplitCharts(L4Summary(df))
    /\ pc' = "done"
    /\ UNCHANGED <<script, csv, df, hue_order, palette, df_grouped, i,
                   pivot_cost, pivot_max, error, raised_in>>

(***************************************************************************)
(* l5/plot.py                                                              *)
(***************************************************************************)
RequestCount == 65536

L5Rows == [D : {1, 2}, p : {<<1, 10>>, <<1, 2>>},
           avg_cost : {FromInt(RequestCount), FromInt(98304)},
           avg_max_copies : {FromInt(1), <<3, 2>>}]

L5CostPerRequest(row) == FDiv(row.avg_cost, FromInt(RequestCount))

(* A pivot that tolerates repeated cells as long as their values agree. *)
PivotRejectsConflicts(frame, index, columns, values) ==
    \E a, b \in 1..Len(frame) :
        a # b /\ frame[a][index] = frame[b][index]
              /\ frame[a][columns] = frame[b][columns]
              /\ frame[a][values] # frame[b][values]

(* DataFrame.pivot raises ValueError ("Index contains duplicate entries, *)
(* cannot reshape") when two rows have the same (index, columns) pair.   *)
PivotRejects(frame, index, columns, values) ==
    \E a, b \in 1..Len(frame) :
        a # b /\ frame[a][index] = frame[b][index]
              /\ frame[a][columns] = frame[b][columns]

(* df.pivot(index=, columns=, values=) when it does not raise: one cell *)
(* per (index value, columns value), NaN where no row has the pair.     *)
Pivot(frame, index, columns, values) ==
    [cell \in Range(Column(frame, index)) \X Range(Column(frame, columns)) |->
        LET rows == {a \in 1..Len(frame) : frame[a][index] = cell[1]
                                           /\ frame[a][columns] = cell[2]}
        IN IF rows = {} THEN NaN ELSE frame[CHOOSE a \in rows : TRUE][values]]

L5Derive ==
    /\ script = "l5" /\ pc = "start"
    /\ df' = [j \in 1..Len(csv) |->
                WithField(csv[j], "avg_cost_per_request", L5CostPerRequest(csv[j]))]
    /\ pc' = "line_avg_cost"
    /\ UNCHANGED <<script, csv, hue_order, palette, df_grouped, i, saved,
                   pivot_cost, pivot_max, error, raised_in>>

L5LineAvgCost ==
    /\ script = "l5" /\ pc = "line_avg_cost"
    /\ saved' = Append(saved, NamedPaletteChart("line_avg_cost_vs_p.png",
                          <<"line", "avg_cost">>, df, "D", "tab10"))
    /\ pc' = "line_avg_max_copies"
    /\ UNCHANGED <<script, csv, df, hue_order, palette, df_grouped, i,
                   pivot_cost, pivot_max, error, raised_in>>

L5LineMaxCopies ==
    /\ script = "l5" /\ pc = "line_avg_max_copies"
    /\ saved' = Append(saved, NamedPaletteChart("line_avg_max_copies_vs_p.png",
                          <<"line", "avg_max_copies">>, df, "D", "tab10"))
    /\ pc' = "heatmap_cost"
    /\ UNCHANGED <<script, csv, df, hue_order, palette, df_grouped, i,
                   pivot_cost, pivot_max, error, raised_in>>

L5Heatmap(file, key) == Chart(file, key, df, "D", <<>>, <<>>)

(* sns.heatmap of a matrix with no cell takes the minimum of nothing for *)
(* its colour range, which raises ValueError.                           *)
L5HeatmapCost ==
    /\ script = "l5" /\ pc = "heatmap_cost"
    /\ IF PivotRejects(df, "D", "p", "avg_cost_per_request")
       THEN /\ Raise("df.pivot")
            /\ UNCHANGED <<pivot_cost, saved>>
       ELSE IF df = <<>>
       THEN /\ pivot_cost' = Pivot(df, "D", "p", "avg_cost_per_request")
            /\ Raise("sns.heatmap")
            /\ UNCHANGED saved
       ELSE /\ pivot_cost' = Pivot(df, "D", "p", "avg_cost_per_request")
            /\ saved' = Append(saved, L5Heatmap("heatmap_avg_cost_per_request.png",
                                   <<"heatmap", "avg_cost_per_request">>))
            /\ pc' = "heatmap_max"
            /\ UNCHANGED <<error, raised_in>>
    /\ UNCHANGED <<script, csv, df, hue_order, palette, df_grouped, i, pivot_max>>

L5HeatmapMaxCopies ==
    /\ script = "l5" /\ pc = "heatmap_max"
    /\ IF PivotRejects(df, "D", "p", "avg_max_copies")
       THEN /\ Raise("df.pivot")
            /\ UNCHANGED <<pivot_max, saved>>
       ELSE /\ pivot_max' = Pivot(df, "D", "p", "avg_max_copies")
            /\ saved' = Append(saved, L5Heatmap("heatmap_avg_max_copies.png",
                                   <<"heatmap", "avg_max_copies">>))
            /\ pc' = "done"
            /\ UNCHANGED <<error, raised_in>>
    /\ UNCHANGED <<script, csv, df, hue_order, palette, df_grouped, i, pivot_cost>>

(***************************************************************************)
(* The runs.                                                               *)
(***************************************************************************)
Init ==
    /\ \/ script = "l1" /\ csv \in SeqsUpTo(L1Rows, MaxRows)
       \/ script = "l2" /\ csv \in SeqsUpTo(L2Rows, MaxRows)
       \/ script = "l3" /\ csv \in SeqsUpTo(L3Rows, MaxRows)
       \/ script = "l4" /\ csv \in SeqsUpTo(L4Rows, MaxRows)
       \/ script = "l5" /\ csv \in SeqsUpTo(L5Rows, MaxRows)
    /\ pc = "start"
    /\ df = <<>> /\ hue_order = <<>> /\ palette = <<>> /\ df_grouped = <<>>
    /\ i = 1 /\ saved = <<>>
    /\ pivot_cost = <<>> /\ pivot_max = <<>>
    /\ error = "none" /\ raised_in = "none"

Next ==
    \/ L1Derive
    \/ L1Palette
    \/ L1PlotDistribution
    \/ L1PlotZoomed
    \/ L2Group
    \/ L2PlotDistribution
    \/ L2FacetGrid
    \/ L2PlotN100
    \/ L2PlotN2
    \/ L3Derive
    \/ L3BoxplotDistribution
    \/ L3BarplotMean
    \/ L3OverallBoxplot
    \/ L3FacetGrid
    \/ L4Main
    \/ plot_distribution_comparison
    \/ plot_algorithm_comparison
    \/ plot_graph_comparison
    \/ plot_cost_vs_D
    \/ plot_cost_vs_D_split
    \/ L5Derive
    \/ L5LineAvgCost
    \/ L5LineMaxCopies
    \/ L5HeatmapCost
    \/ L5HeatmapMaxCopies

Spec == Init /\ [][Next]_vars

(***************************************************************************)
(* Properties.  The reference definitions RawKey, RowsAt, SumAt, FirstRow,  *)
(* IsKthSmallest, IsMedianOf and IsExtremePerPair state what a result must *)
(* be in terms of the raw field values and index sets of the input; they   *)
(* use neither the coded keys nor the sorting of the operators above.  The *)
(* ascending order of C2 is stated with the key order of Python, L2Key and *)
(* L4Key under LexLess.                                                    *)
(***************************************************************************)
RawKey(row, fields) == [j \in 1..Len(fields) |-> row[fields[j]]]

RowsAt(records, fields, key) ==
    {j \in 1..Len(records) : RawKey(records[j], fields) = key}

RECURSIVE SumAt(_, _, _)
SumAt(records, rows, field) ==
    IF rows = {} THEN FromInt(0)
    ELSE LET j == CHOOSE x \in rows : TRUE
         IN FAdd(records[j][field], SumAt(records, rows \ {j}, field))

(* result is the aggregation of records by fields with the mean of measure: *)
(* no key twice, the keys of the input and no other, each value the mean of *)
(* exactly the records of its key, and nothing for no records.              *)
IsAggregation(records, result, fields, measure, reduced) ==
    /\ \A a, b \in 1..Len(result) :
          a # b => RawKey(result[a], fields) # RawKey(result[b], fields)
    /\ {RawKey(result[a], fields) : a \in 1..Len(result)}
         = {RawKey(records[j], fields) : j \in 1..Len(records)}
    /\ \A a \in 1..Len(result) :
          LET rows == RowsAt(records, fields, RawKey(result[a], fields))
          IN result[a][reduced] =
                FDiv(SumAt(records, rows, measure), FromInt(Cardinality(rows)))
    /\ records = <<>> => result = <<>>

L2Fields == <<"distribution", "n", "cache_strategy", "k">>
L4Fields == <<"Algorithm", "Distribution", "Graph", "D">>

L2Grouped == script = "l2" /\ pc # "start"
L4Summaries == {c \in Range(saved) : script = "l4" /\ c.key = <<"cost_vs_D">>}

(* C1: df_grouped of gen_plots and the summary of plot_cost_vs_D hold *)
(* exactly one row per distinct group key of the input, whose value   *)
(* is the mean of exactly the input records of that key; a header-only *)
(* input gives no row.                                                 *)
C1_AggregateOnePerGroup ==
    /\ L2Grouped => IsAggregation(df, df_grouped, L2Fields, "avg_cost", "avg_cost")
    /\ \A c \in L4Summaries : IsAggregation(df, c.data, L4Fields, "Cost", "mean_cost")

(* Two records of one key with different costs were reduced to one row. *)
C1_Witness ==
    /\ L2Grouped /\ Len(df) = 2 /\ Len(df_grouped) = 1
    /\ df[1].avg_cost # df[2].avg_cost

FirstRow(records, fields, key) ==
    CHOOSE j \in RowsAt(records, fields, key) :
        \A h \in RowsAt(records, fields, key) : j <= h

InFirstAppearanceOrder(records, result, fields) ==
    \A a, b \in 1..Len(result) :
        (a < b) <=> (FirstRow(records, fields, RawKey(result[a], fields))
                       < FirstRow(records, fields, RawKey(result[b], fields)))

(* C2 as claimed: the groups of an aggregation come in the order in which *)
(* their keys first occur in the input.                                   *)
C2_FirstAppearanceOrder ==
    /\ L2Grouped => InFirstAppearanceOrder(df, df_grouped, L2Fields)
    /\ \A c \in L4Summaries : InFirstAppearanceOrder(df, c.data, L4Fields)

(* C2 as amended: the groups of an aggregation come in ascending order of *)
(* their keys (field by field, names by code point, numbers by value),    *)
(* wherever the keys first occur in the input.                            *)
C2_AscendingKeyOrder ==
    /\ L2Grouped => \A a, b \in 1..Len(df_grouped) :
          a < b => LexLess(L2Key(df_grouped[a]), L2Key(df_grouped[b]))
    /\ \A c \in L4Summaries : \A a, b \in 1..Len(c.data) :
          a < b => LexLess(L4Key(c.data[a]), L4Key(c.data[b]))

(* The input has the larger key first, and the result the smaller. *)
C2_Witness ==
    /\ L2Grouped /\ Len(df) = 2 /\ Len(df_grouped) = 2
    /\ LexLess(L2Key(df[2]), L2Key(df[1]))
    /\ RawKey(df_grouped[1], L2Fields) = RawKey(df[2], L2Fields)

L5Pivoted == script = "l5" /\ pc \in {"heatmap_max", "done", "failed"}

PivotFailed == error # "none" /\ raised_in = "df.pivot"

SharedCell(frame) ==
    \E a, b \in 1..Len(frame) :
        a # b /\ frame[a].D = frame[b].D /\ frame[a].p = frame[b].p

ConflictingCell(frame, values) ==
    \E a, b \in 1..Len(frame) :
        /\ a # b /\ frame[a].D = frame[b].D /\ frame[a].p = frame[b].p
        /\ frame[a][values] # frame[b][values]

(* C3 as claimed: the pivot fails exactly when two records share a (row, *)
(* col) pair with different values, and leaves no matrix when it fails.  *)
C3_FailsOnConflictingCell ==
    L5Pivoted =>
        /\ PivotFailed <=> ConflictingCell(df, "avg_cost_per_request")
        /\ PivotFailed => pivot_cost = <<>> /\ pivot_max = <<>>

(* C3 as amended: the pivot fails exactly when two records share a (row, *)
(* col) pair, whether their values differ or not; it never fails when    *)
(* every pair occurs once, and it leaves no matrix when it fails.        *)
C3_FailsOnSharedCell ==
    L5Pivoted =>
        /\ PivotFailed <=> SharedCell(df)
        /\ PivotFailed => pivot_cost = <<>> /\ pivot_max = <<>>
        /\ ~PivotFailed =>
              \A a \in 1..Len(df) :
                 pivot_cost[<<df[a].D, df[a].p>>] = df[a].avg_cost_per_request

(* The pivot failed on two records of one cell that hold the same value. *)
C3_Witness ==
    /\ L5Pivoted /\ error = "ValueError" /\ raised_in = "df.pivot"
    /\ SharedCell(df) /\ ~ConflictingCell(df, "avg_cost_per_request")

ZeroDivisor ==
    \/ script = "l1" /\ \E j \in 1..Len(csv) : csv[j].n = 0
    \/ script = "l3" /\ \E j \in 1..Len(csv) : IsZero(Ceil(csv[j].item_sum))

ExactQuotients ==
    /\ script = "l1" => \A j \in 1..Len(df) :
          /\ df[j].avg_cost[2] # 0
          /\ df[j].avg_cost[1] * df[j].n = df[j].total_cost * df[j].avg_cost[2]
    /\ script = "l3" => \A j \in 1..Len(df) :
          /\ df[j].competitive_ratio[2] # 0
          /\ df[j].competitive_ratio[1] * df[j].optimum[1]
               = df[j].bin_count * df[j].competitive_ratio[2] * df[j].optimum[2]

(* C4: a ratio derivation over a record whose divisor is zero ends the    *)
(* pass in an error with no derived value for any record; with no zero    *)
(* divisor every record gets the exact quotient.                          *)
C4_ZeroDivisorIsAnError ==
    (script \in {"l1", "l3"} /\ pc # "start") =>
        IF ZeroDivisor THEN error # "none" /\ df = <<>>
        ELSE Len(df) = Len(csv) /\ ExactQuotients

(* C5: a category has the same colour on every chart of a run that draws it. *)
C5_SameColourOnEveryChart ==
    \A c1, c2 \in Range(saved) :
        c1.hue = c2.hue =>
            \A p1 \in c1.colours, p2 \in c2.colours :
                p1[1] = p2[1] => p1[2] = p2[2]

Unlisted(frame) == Range(Column(frame, "strategy")) \ Range(strategy_order)

(* C6: every chart of l3 is built with the explicit strategy_order (box   *)
(* with order=, bar with hue_order=, facet grid of boxes); building one   *)
(* from data that holds a strategy outside the order fails with an error, *)
(* so no chart is ever written whose data holds such a strategy.          *)
C6_UnlistedCategoryIsAnError ==
    script = "l3" => \A c \in Range(saved) : Unlisted(c.data) = {}

(* The records of a chart with a strategy whose ratio is a number. *)
RatiosAt(data, cat) ==
    {j \in 1..Len(data) : data[j].strategy = cat /\ ~IsNaN(data[j].competitive_ratio)}

(* data[j] is a k-th smallest of the rows. *)
IsKthSmallest(data, rows, j, k) ==
    /\ j \in rows
    /\ Cardinality({h \in rows : FLess(data[h].competitive_ratio,
                                       data[j].competitive_ratio)}) < k
    /\ k <= Cardinality({h \in rows : ~FLess(data[j].competitive_ratio,
                                             data[h].competitive_ratio)})

(* m is the median of the ratios of the rows: the middle one, or the mean *)
(* of the two middle ones.                                                *)
IsMedianOf(m, data, rows) ==
    LET n == Cardinality(rows)
    IN IF n = 0 THEN m = NaN
       ELSE IF n % 2 = 1
            THEN \E j \in rows : /\ IsKthSmallest(data, rows, j, (n + 1) \div 2)
                                 /\ m = data[j].competitive_ratio
       ELSE \E j, h \in rows :
               /\ IsKthSmallest(data, rows, j, n \div 2)
               /\ IsKthSmallest(data, rows, h, (n \div 2) + 1)
               /\ m = FDiv(FAdd(data[j].competitive_ratio,
                                data[h].competitive_ratio), FromInt(2))

BoxCharts == {c \in Range(saved) : script = "l3" /\ c.key[1] = "box"}

(* C7: on every box chart, each strategy of the x axis that has records  *)
(* carries one annotation, at its tick, whose value is the median of the *)
(* competitive ratios of exactly the chart's records of that strategy;   *)
(* a strategy with no records carries none.                              *)
C7_AnnotationIsGroupMedian ==
    \A c \in BoxCharts : \A j \in 1..Len(strategy_order) :
        LET cat == strategy_order[j]
            notes == {a \in c.annot : a.cat = cat}
        IN IF \E r \in Range(c.data) : r.strategy = cat
           THEN /\ Cardinality(notes) = 1
                /\ \A a \in notes :
                      /\ a.pos = j - 1
                      /\ IsMedianOf(a.val, c.data, RatiosAt(c.data, cat))
           ELSE notes = {}

(* A box of two records with different finite ratios was annotated. *)
C7_Witness ==
    \E c \in BoxCharts : \E a \in c.annot :
        /\ Cardinality(RatiosAt(c.data, a.cat)) = 2
        /\ \E j, h \in RatiosAt(c.data, a.cat) :
              FLess(c.data[j].competitive_ratio, c.data[h].competitive_ratio)
        /\ a.val[2] # 0

(* C8: in a run in which a stage fails, no chart has been written. *)
C8_NoPartialOutput == error # "none" => saved = <<>>

PairsOf(rows) == {<<r.n, r.cache_strategy>> : r \in rows}

(* extreme holds, for every (n, cache_strategy) pair of rows, exactly one *)
(* row, the one of the pair whose k is lowest (highest), and no other row. *)
IsExtremePerPair(extreme, rows, lowest) ==
    /\ Range(extreme) \subseteq rows
    /\ \A pr \in PairsOf(rows) :
          LET at == {j \in 1..Len(extreme) :
                        <<extreme[j].n, extreme[j].cache_strategy>> = pr}
              ofPair == {r \in rows : <<r.n, r.cache_strategy>> = pr}
          IN /\ Cardinality(at) = 1
             /\ \A j \in at : \A r \in ofPair :
                   IF lowest THEN extreme[j].k <= r.k ELSE extreme[j].k >= r.k

L2DistRows(dist) == {r \in Range(df_grouped) : r.distribution = dist}

(* C9: the lowest-k and highest-k data of each distribution hold exactly *)
(* one row per (n, cache_strategy) pair of the distribution's aggregated *)
(* data, with the pair's minimum and maximum k.                          *)
C9_ExtremeKPerPair ==
    script = "l2" => \A c \in Range(saved) :
        /\ c.key[1] = "lowest_k" => IsExtremePerPair(c.data, L2DistRows(c.key[2]), TRUE)
        /\ c.key[1] = "highest_k" => IsExtremePerPair(c.data, L2DistRows(c.key[2]), FALSE)

(* Two rows of one (n, cache_strategy) pair, with different k, were *)
(* reduced to the one of the lowest k.                              *)
C9_Witness ==
    /\ script = "l2"
    /\ \E c \in Range(saved) :
          /\ c.key[1] = "lowest_k"
          /\ Cardinality(L2DistRows(c.key[2])) = 2
          /\ Len(c.data) = 1

(* C10: no two distinct charts of a run are written to the same file. *)
C10_OneFilePerChart ==
    \A a, b \in 1..Len(saved) :
        saved[a].key # saved[b].key => saved[a].file # saved[b].file
====
